---- MODULE Spec2Model ----
(***************************************************************************)
(* Client-side idle session monitor of the price tracker front-end:        *)
(* the useSessionTimeout hook, the pages and flows that share its          *)
(* localStorage keys (Login.handleSubmit, Navbar.handleLogout), and the    *)
(* browser facilities it drives (timers, window listeners, storage).       *)
(* Time is in milliseconds, as Date.now() reports it.                      *)
(***************************************************************************)
EXTENDS Integers, Sequences, FiniteSets, TLC

\* ------------------------------------------------------------ bounds
\* Date.now() at the start of a behaviour.
StartTime == 600000
\* Clock steps per timer period.
TicksPerInterval == 2
\* Clock steps of a behaviour.
MaxTicks == 11
\* Largest timeoutMinutes a caller passes to the hook.
MaxTimeoutMinutes == 2
\* Clock steps of a behaviour with two tabs.
TabsMaxTicks == 8

\* ------------------------------------------------------------ program constants
IntervalMs == 30000
SecondsPerMinute == 60
MsPerSecond == 1000
Radix == 10

TickMs == IntervalMs \div TicksPerInterval
MaxTime == StartTime + MaxTicks * TickMs
\* Browser tabs that share the storage, and the tabs a behaviour of Spec uses.
AllTabs == {1, 2}
Tabs == {1}
TimeoutChoices == 1..MaxTimeoutMinutes

VARIABLES
    now,          \* Date.now()
    storage,      \* localStorage: key -> string (a sequence of characters)
    route,        \* per tab: location.pathname
    config,       \* per tab: timeoutMinutes the hook was last rendered with (0: not rendered)
    effect,       \* per tab: the live effect closure React holds for cleanup
    timers,       \* per tab: the browser's live interval timers
    listeners,    \* per tab: the window's registered event listeners
    page,         \* per tab: the state of the mounted page that loads the wishlist
    lastWriteAt,  \* time of the latest activity: activation, event under a live monitor, login
    foreign,      \* lastActivity was rewritten from outside since that activity
    lastRun       \* the handler that ran last, what it read and what it did

vars == <<now, storage, route, config, effect, timers, listeners, page, lastWriteAt, foreign,
          lastRun>>

\* ------------------------------------------------------------ strings
Digit == <<"0", "1", "2", "3", "4", "5", "6", "7", "8", "9">>
DigitSet == {Digit[i] : i \in 1..Radix}
DigitVal(c) == (CHOOSE i \in 1..Radix : Digit[i] = c) - 1

\* localStorage.getItem of a missing key.
Null == <<"<null>">>
\* String(null), as parseInt converts its argument.
JSString(v) == IF v = Null THEN <<"n", "u", "l", "l">> ELSE v

RECURSIVE DigitsOf(_)
DigitsOf(n) ==
    IF n < Radix THEN <<Digit[n + 1]>>
    ELSE Append(DigitsOf(n \div Radix), Digit[(n % Radix) + 1])

\* Number.prototype.toString() of an integer.
NumberToString(n) == IF n < 0 THEN <<"-">> \o DigitsOf(-n) ELSE DigitsOf(n)

RECURSIVE TrimStart(_)
TrimStart(s) == IF s # <<>> /\ Head(s) = " " THEN TrimStart(Tail(s)) ELSE s

RECURSIVE DigitPrefix(_)
DigitPrefix(s) ==
    IF s # <<>> /\ Head(s) \in DigitSet THEN <<Head(s)>> \o DigitPrefix(Tail(s))
    ELSE <<>>

RECURSIVE DigitsValue(_, _)
DigitsValue(s, acc) ==
    IF s = <<>> THEN acc ELSE DigitsValue(Tail(s), acc * Radix + DigitVal(Head(s)))

NaN == [nan |-> TRUE, val |-> 0]
Num(n) == [nan |-> FALSE, val |-> n]

\* parseInt(v, 10): leading blanks skipped, an optional sign, then the longest
\* prefix of digits; NaN when that prefix is empty.
ParseInt(v) ==
    LET s == TrimStart(JSString(v))
        neg == s # <<>> /\ Head(s) = "-"
        body == IF s # <<>> /\ Head(s) \in {"-", "+"} THEN Tail(s) ELSE s
        z == DigitPrefix(body)
    IN  IF z = <<>> THEN NaN
        ELSE Num(IF neg THEN 0 - DigitsValue(z, 0) ELSE DigitsValue(z, 0))

\* JavaScript truthiness of a parsed number and of a stored string.
TruthyNum(p) == ~p.nan /\ p.val # 0
TruthyStr(v) == v # Null /\ v # <<>>

\* ------------------------------------------------------------ the world a handler runs in
World ==
    [now |-> now, storage |-> storage, route |-> route, config |-> config,
     effect |-> effect, timers |-> timers, listeners |-> listeners, page |-> page,
     log |-> <<>>]

Logged(w, entry) == [w EXCEPT !.log = Append(@, entry)]

GetItem(w, k) == IF k \in DOMAIN w.storage THEN w.storage[k] ELSE Null

SetItem(w, k, v) ==
    Logged([w EXCEPT !.storage = (k :> v) @@ @], <<"setItem", k>>)

RemoveItem(w, k) ==
    Logged([w EXCEPT !.storage = [x \in (DOMAIN @) \ {k} |-> @[x]]], <<"removeItem", k>>)

Alert(w) == Logged(w, <<"alert">>)

\* ------------------------------------------------------------ browser facilities
Min(S) == CHOOSE x \in S : \A y \in S : x <= y

\* Faulty variant: a period of one minute.
NextDue_Minute(t) == t + 2 * IntervalMs

\* The time a timer set or fired at t is due next.
NextDue(t) == t + IntervalMs

\* setInterval: a fresh id, the callback's closure (its timeoutMs), first due one
\* period from now.
FreshTimerId(w, tab) ==
    Min({i \in 1..(Cardinality(w.timers[tab]) + 1) : \A t \in w.timers[tab] : t.id # i})

SetInterval(w, tab, id, timeoutMs) ==
    Logged([w EXCEPT !.timers[tab] =
                @ \cup {[id |-> id, timeoutMs |-> timeoutMs, due |-> NextDue(w.now)]}],
           <<"setInterval">>)

\* clearInterval; the log notes whether the cancelled timer was already due.
ClearInterval(w, tab, id) ==
    Logged([w EXCEPT !.timers[tab] = {t \in @ : t.id # id}],
           <<"clearInterval",
             IF \E t \in w.timers[tab] : t.id = id /\ t.due <= w.now THEN "due" ELSE "pending">>)

\* Identity of a new updateLastActivity closure.
FreshFn(w, tab) ==
    Min({i \in 1..(Cardinality(w.listeners[tab]) + 1) : \A l \in w.listeners[tab] : l.fn # i})

AddEventListener(w, tab, type, fn) ==
    Logged([w EXCEPT !.listeners[tab] = @ \cup {[type |-> type, fn |-> fn]}],
           <<"addEventListener", type>>)

RemoveEventListener(w, tab, type, fn) ==
    Logged([w EXCEPT !.listeners[tab] = @ \ {[type |-> type, fn |-> fn]}],
           <<"removeEventListener", type>>)

\* ------------------------------------------------------------ useSessionTimeout
NoEffect == [fn |-> 0, interval |-> 0, timeoutMs |-> 0]

TimeoutMs(timeoutMinutes) == timeoutMinutes * SecondsPerMinute * MsPerSecond

\* Faulty variant: the timestamp in seconds.
UpdateLastActivity_Seconds(w) ==
    SetItem(w, "lastActivity", NumberToString(w.now \div MsPerSecond))

\* Faulty variant: a handler that drops the timestamp when nobody is logged in.
UpdateLastActivity_Guarded(w) ==
    IF TruthyStr(GetItem(w, "user_id"))
    THEN SetItem(w, "lastActivity", NumberToString(w.now))
    ELSE RemoveItem(w, "lastActivity")

UpdateLastActivity(w) == SetItem(w, "lastActivity", NumberToString(w.now))

\* Faulty variant: a cleanup that forgets clearInterval.
EffectCleanup_KeepsTimer(w, tab) ==
    LET e == w.effect[tab]
        w2 == RemoveEventListener(w, tab, "mousemove", e.fn)
        w3 == RemoveEventListener(w2, tab, "keydown", e.fn)
    IN  [w3 EXCEPT !.effect[tab] = NoEffect]

\* The effect's cleanup function.
EffectCleanup(w, tab) ==
    LET e == w.effect[tab]
        w1 == ClearInterval(w, tab, e.interval)
        w2 == RemoveEventListener(w1, tab, "mousemove", e.fn)
        w3 == RemoveEventListener(w2, tab, "keydown", e.fn)
    IN  [w3 EXCEPT !.effect[tab] = NoEffect]

\* Faulty variant: an effect body without the closing updateLastActivity() call.
RunEffect_NoInit(w, tab, timeoutMs) ==
    LET fn == FreshFn(w, tab)
        w1 == AddEventListener(w, tab, "mousemove", fn)
        w2 == AddEventListener(w1, tab, "keydown", fn)
        id == FreshTimerId(w2, tab)
        w3 == SetInterval(w2, tab, id, timeoutMs)
    IN  [w3 EXCEPT !.effect[tab] = [fn |-> fn, interval |-> id, timeoutMs |-> timeoutMs]]

\* The effect body.
RunEffect(w, tab, timeoutMs) ==
    LET fn == FreshFn(w, tab)
        w1 == AddEventListener(w, tab, "mousemove", fn)
        w2 == AddEventListener(w1, tab, "keydown", fn)
        id == FreshTimerId(w2, tab)
        w3 == SetInterval(w2, tab, id, timeoutMs)
        w4 == UpdateLastActivity(w3)
    IN  [w4 EXCEPT !.effect[tab] = [fn |-> fn, interval |-> id, timeoutMs |-> timeoutMs]]

\* Faulty variant: a dependency array without timeoutMs.
DepsChanged_Never(e, timeoutMs) == FALSE

\* The dependency array [navigate, timeoutMs]: navigate is stable while the page
\* stays mounted.
DepsChanged(e, timeoutMs) == e.timeoutMs # timeoutMs

\* One render of a component that calls useSessionTimeout(timeoutMinutes),
\* followed by React's effect phase.
UseSessionTimeout(w, tab, timeoutMinutes) ==
    LET timeoutMs == TimeoutMs(timeoutMinutes)
        w0 == [w EXCEPT !.config[tab] = timeoutMinutes]
    IN  IF w.effect[tab] = NoEffect THEN RunEffect(w0, tab, timeoutMs)
        ELSE IF DepsChanged(w.effect[tab], timeoutMs)
             THEN RunEffect(EffectCleanup(w0, tab), tab, timeoutMs)
             ELSE w0

\* The calling component leaves the tree.
Unmount(w, tab) ==
    LET w0 == [w EXCEPT !.config[tab] = 0]
    IN  IF w.effect[tab] = NoEffect THEN w0 ELSE EffectCleanup(w0, tab)

MonitorRoute == "/add-product"
Routes == {"/login", "/register", "/dashboard", "/add-product", "/wishlist", "/product/:id"}

\* ------------------------------------------------------------ pages that load the wishlist
\* A page's loading flag, whether its GET /wishlist/:userId is in flight, and the
\* error it shows. Pages without such a request keep NoPage.
NoPage == [loading |-> FALSE, pending |-> FALSE, error |-> ""]

\* const [loading, setLoading] = useState(true); const [error, setError] = useState("")
FirstRender == [loading |-> TRUE, pending |-> FALSE, error |-> ""]

\* Dashboard's mount effect: without user_id it returns before the request.
DashboardMount(w, tab) ==
    LET userId == GetItem(w, "user_id")
    IN  IF ~TruthyStr(userId)
        THEN [w EXCEPT !.page[tab] = FirstRender]
        ELSE [w EXCEPT !.page[tab] = [FirstRender EXCEPT !.pending = TRUE]]

\* Wishlist's mount effect: without user_id it sets the error and ends loading.
WishlistMount(w, tab) ==
    LET userId == GetItem(w, "user_id")
    IN  IF ~TruthyStr(userId)
        THEN [w EXCEPT !.page[tab] =
                 [FirstRender EXCEPT !.error = "No user logged in.", !.loading = FALSE]]
        ELSE [w EXCEPT !.page[tab] = [FirstRender EXCEPT !.pending = TRUE]]

\* How the request can end: a body, a 404, any other failure.
FetchOutcomes == {"ok", "404", "error"}

\* Dashboard after the await: try or catch, then finally.
DashboardSettled(w, tab, outcome) ==
    [w EXCEPT !.page[tab].pending = FALSE, !.page[tab].loading = FALSE]

\* Wishlist after the await: try or catch, then finally.
WishlistSettled(w, tab, outcome) ==
    LET error == IF outcome = "ok" THEN w.page[tab].error
                 ELSE IF outcome = "404"
                      THEN "No items in wishlist. Add some products to get started!"
                      ELSE "Failed to fetch wishlist. Please try again later."
    IN  [w EXCEPT !.page[tab].pending = FALSE, !.page[tab].error = error,
                  !.page[tab].loading = FALSE]

\* The element the router renders at `path` mounts.
MountPage(w, tab, path) ==
    IF path = "/dashboard" THEN DashboardMount(w, tab)
    ELSE IF path = "/wishlist" THEN WishlistMount(w, tab)
    ELSE [w EXCEPT !.page[tab] = NoPage]

\* Faulty variant: the monitor outlives the page that started it.
Navigate_KeepsMonitor(w, tab, path) ==
    LET w0 == Logged([w EXCEPT !.route[tab] = path], <<"navigate", path>>)
    IN  IF path = w.route[tab] THEN w0 ELSE MountPage(w0, tab, path)

\* navigate(path): the router replaces the page; the page that called the hook
\* unmounts when the path leaves its route, and the page of the new route mounts.
Navigate(w, tab, path) ==
    LET w0 == Logged([w EXCEPT !.route[tab] = path], <<"navigate", path>>)
        w1 == IF w.route[tab] = MonitorRoute /\ path # MonitorRoute
              THEN Unmount(w0, tab) ELSE w0
    IN  IF path = w.route[tab] THEN w1 ELSE MountPage(w1, tab, path)

\* Faulty variant: a non-strict comparison.
Expired_NonStrict(nowv, last, timeoutMs) == nowv - last >= timeoutMs

Expired(nowv, last, timeoutMs) == nowv - last > timeoutMs

\* Faulty variant: no guard on lastActivity (NaN compares as expired).
IntervalCallback_FailClosed(w, tab, timer) ==
    LET lastActivity == ParseInt(GetItem(w, "lastActivity"))
        userId == GetItem(w, "user_id")
    IN  IF TruthyStr(userId)
        THEN IF lastActivity.nan \/ Expired(w.now, lastActivity.val, timer.timeoutMs)
             THEN Navigate(Alert(RemoveItem(RemoveItem(w, "user_id"), "lastActivity")),
                           tab, "/login")
             ELSE w
        ELSE w

\* Faulty variant: no guard on user_id.
IntervalCallback_NoUserGuard(w, tab, timer) ==
    LET lastActivity == ParseInt(GetItem(w, "lastActivity"))
    IN  IF TruthyNum(lastActivity) /\ Expired(w.now, lastActivity.val, timer.timeoutMs)
        THEN Navigate(Alert(RemoveItem(RemoveItem(w, "user_id"), "lastActivity")),
                      tab, "/login")
        ELSE w

\* Faulty variant: the expiry also removes token.
IntervalCallback_ClearsToken(w, tab, timer) ==
    LET lastActivity == ParseInt(GetItem(w, "lastActivity"))
        userId == GetItem(w, "user_id")
    IN  IF TruthyStr(userId) /\ TruthyNum(lastActivity)
           /\ Expired(w.now, lastActivity.val, timer.timeoutMs)
        THEN Navigate(Alert(RemoveItem(RemoveItem(RemoveItem(w, "user_id"), "token"),
                                       "lastActivity")),
                      tab, "/login")
        ELSE w

\* Faulty variant: the redirect comes before the notification.
IntervalCallback_AlertLast(w, tab, timer) ==
    LET lastActivity == ParseInt(GetItem(w, "lastActivity"))
        userId == GetItem(w, "user_id")
    IN  IF TruthyStr(userId) /\ TruthyNum(lastActivity)
           /\ Expired(w.now, lastActivity.val, timer.timeoutMs)
        THEN Alert(Navigate(RemoveItem(RemoveItem(w, "user_id"), "lastActivity"),
                            tab, "/login"))
        ELSE w

\* The setInterval callback of the effect that created `timer`.
IntervalCallback(w, tab, timer) ==
    LET lastActivity == ParseInt(GetItem(w, "lastActivity"))
        userId == GetItem(w, "user_id")
    IN  IF TruthyStr(userId) /\ TruthyNum(lastActivity)
        THEN IF Expired(w.now, lastActivity.val, timer.timeoutMs)
             THEN LET w1 == RemoveItem(w, "user_id")
                      w2 == RemoveItem(w1, "lastActivity")
                      w3 == Alert(w2)
                  IN  Navigate(w3, tab, "/login")
             ELSE w
        ELSE w

\* ------------------------------------------------------------ other flows on the same keys
UserIdValue == <<"7">>
TokenValue == <<"j", "w", "t">>

\* What POST /users/login can answer: a failure, or a body that may carry
\* access_token and user_id.
LoginResponses ==
    {[ok |-> FALSE, access_token |-> FALSE, user_id |-> FALSE]}
    \cup [ok : {TRUE}, access_token : BOOLEAN, user_id : BOOLEAN]

\* Login.handleSubmit once the response is in.
HandleSubmit(w, tab, res) ==
    IF ~res.ok THEN w
    ELSE LET w1 == IF res.access_token THEN SetItem(w, "token", TokenValue) ELSE w
             w2 == IF res.user_id
                   THEN SetItem(SetItem(w1, "user_id", UserIdValue),
                                "lastActivity", NumberToString(w1.now))
                   ELSE w1
         IN  Navigate(w2, tab, "/dashboard")

\* Navbar.handleLogout (LogoutButton.handleLogout is the same).
HandleLogout(w, tab) ==
    LET w1 == RemoveItem(w, "user_id")
        w2 == RemoveItem(w1, "token")
        w3 == RemoveItem(w2, "lastActivity")
    IN  Navigate(w3, tab, "/login")

\* LayoutWrapper hides the Navbar on these paths.
HideNavbar(path) == path \in {"/login", "/register"}

\* Values another script, tab or the user can leave under lastActivity.
ForeignValues ==
    {<<"a", "b", "c">>, <<>>, <<"0">>, <<"1", "2", "a", "b">>, Null}

\* ------------------------------------------------------------ actions
NoRead == [lastActivity |-> NaN, userId |-> FALSE, timeoutMs |-> 0]

Ran(handler, tab, w, read) ==
    [handler |-> handler, tab |-> tab, log |-> w.log, read |-> read]

\* The step's effect on the state. `writer` says whether the step was an
\* activity ("activity"), an outside write to lastActivity ("foreign") or neither.
Commit(w, run, writer) ==
    /\ now' = w.now
    /\ storage' = w.storage
    /\ route' = w.route
    /\ config' = w.config
    /\ effect' = w.effect
    /\ timers' = w.timers
    /\ listeners' = w.listeners
    /\ page' = w.page
    /\ lastWriteAt' = IF writer = "activity" THEN now ELSE lastWriteAt
    /\ foreign' = IF writer = "activity" THEN FALSE
                  ELSE IF writer = "foreign" THEN TRUE ELSE foreign
    /\ lastRun' = run

Init ==
    /\ now = StartTime
    /\ storage = [k \in {} |-> Null]
    /\ route = [t \in AllTabs |-> "/login"]
    /\ config = [t \in AllTabs |-> 0]
    /\ effect = [t \in AllTabs |-> NoEffect]
    /\ timers = [t \in AllTabs |-> {}]
    /\ listeners = [t \in AllTabs |-> {}]
    /\ page = [t \in AllTabs |-> NoPage]
    /\ lastWriteAt = 0
    /\ foreign = FALSE
    /\ lastRun = [handler |-> "init", tab |-> 0, log |-> <<>>, read |-> NoRead]

\* Time passes. A due interval callback runs before the clock moves on.
Tick ==
    /\ now < MaxTime
    /\ \A t \in AllTabs : \A timer \in timers[t] : timer.due > now
    /\ Commit([World EXCEPT !.now = now + TickMs], Ran("tick", 0, World, NoRead), "none")

\* The user opens another page (a Navbar link, a Link, the address bar). The page at
\* /add-product calls the hook with the timeout its author chose.
GoTo(tab, path, timeoutMinutes) ==
    /\ path # route[tab]
    /\ path = MonitorRoute \/ timeoutMinutes = 1
    /\ LET w1 == Navigate(World, tab, path)
           w2 == IF path = MonitorRoute THEN UseSessionTimeout(w1, tab, timeoutMinutes) ELSE w1
       IN  Commit(w2, Ran("goto", tab, w2, NoRead),
                  IF path = MonitorRoute THEN "activity" ELSE "none")

\* The calling page renders again, with the same or another timeoutMinutes.
Rerender(tab, timeoutMinutes) ==
    /\ route[tab] = MonitorRoute
    /\ LET w1 == UseSessionTimeout(World, tab, timeoutMinutes)
       IN  Commit(w1, Ran("render", tab, w1, NoRead),
                  IF timeoutMinutes # config[tab] THEN "activity" ELSE "none")

\* The window dispatches a mousemove or keydown event to its listeners.
EventTypes == {"mousemove", "keydown"}

\* Faulty variant: only mousemove reaches updateLastActivity.
Dispatch_MouseOnly(w, tab, type) ==
    IF type = "mousemove" /\ (\E l \in w.listeners[tab] : l.type = type)
    THEN UpdateLastActivity(w) ELSE w

Dispatch(w, tab, type) ==
    IF \E l \in w.listeners[tab] : l.type = type THEN UpdateLastActivity(w) ELSE w

UserEvent(tab, type) ==
    /\ type \in EventTypes
    /\ LET w1 == Dispatch(World, tab, type)
       IN  Commit(w1, Ran("event", tab, w1, NoRead),
                  IF route[tab] = MonitorRoute THEN "activity" ELSE "none")

\* A due interval timer fires: the browser schedules the next period and runs the
\* callback.
TimerFire(tab) ==
    \E timer \in timers[tab] :
    /\ timer.due <= now
    /\ LET w0 == [World EXCEPT !.timers[tab] =
                      (@ \ {timer}) \cup {[timer EXCEPT !.due = NextDue(@)]}]
           w1 == IntervalCallback(w0, tab, timer)
           read == [lastActivity |-> ParseInt(GetItem(w0, "lastActivity")),
                    userId |-> TruthyStr(GetItem(w0, "user_id")),
                    timeoutMs |-> timer.timeoutMs]
       IN  Commit(w1, Ran("check", tab, w1, read), "none")

LoginSubmit(tab, res) ==
    /\ route[tab] = "/login"
    /\ LET w1 == HandleSubmit(World, tab, res)
       IN  Commit(w1, Ran("login", tab, w1, NoRead),
                  IF res.ok /\ res.user_id THEN "activity" ELSE "none")

Logout(tab) ==
    /\ ~HideNavbar(route[tab])
    /\ LET w1 == HandleLogout(World, tab)
       IN  Commit(w1, Ran("logout", tab, w1, NoRead), "none")

\* The request a page sent when it mounted comes back.
FetchSettles(tab, outcome) ==
    /\ page[tab].pending
    /\ LET w1 == IF route[tab] = "/dashboard" THEN DashboardSettled(World, tab, outcome)
                 ELSE WishlistSettled(World, tab, outcome)
       IN  Commit(w1, Ran("response", tab, w1, NoRead), "none")

\* Something outside the application rewrites lastActivity.
ForeignWrite(v) ==
    /\ GetItem(World, "lastActivity") # v
    /\ LET w1 == IF v = Null THEN RemoveItem(World, "lastActivity")
                 ELSE SetItem(World, "lastActivity", v)
       IN  Commit(w1, Ran("foreign", 0, w1, NoRead), "foreign")

Next ==
    \/ Tick
    \/ \E tab \in Tabs, path \in Routes, m \in TimeoutChoices : GoTo(tab, path, m)
    \/ \E tab \in Tabs, m \in TimeoutChoices : Rerender(tab, m)
    \/ \E tab \in Tabs, type \in EventTypes : UserEvent(tab, type)
    \/ \E tab \in Tabs : TimerFire(tab)
    \/ \E tab \in Tabs, res \in LoginResponses : LoginSubmit(tab, res)
    \/ \E tab \in Tabs : Logout(tab)
    \/ \E tab \in Tabs, outcome \in FetchOutcomes : FetchSettles(tab, outcome)
    \/ \E v \in ForeignValues : ForeignWrite(v)

Spec == Init /\ [][Next]_vars

\* ------------------------------------------------------------ two tabs on one storage
\* Both tabs run the application; the pages and answers that matter to the shared
\* session are kept.
TabsRoutes == {"/login", "/dashboard", "/add-product"}
TabsLoginResponses == {res \in LoginResponses : res.user_id = res.ok}

TabsTick ==
    /\ now < StartTime + TabsMaxTicks * TickMs
    /\ Tick

NextTabs ==
    \/ TabsTick
    \/ \E tab \in AllTabs, path \in TabsRoutes, m \in TimeoutChoices : GoTo(tab, path, m)
    \/ \E tab \in AllTabs, type \in EventTypes : UserEvent(tab, type)
    \/ \E tab \in AllTabs : TimerFire(tab)
    \/ \E tab \in AllTabs, res \in TabsLoginResponses : LoginSubmit(tab, res)
    \/ \E tab \in AllTabs : Logout(tab)

SpecTabs == Init /\ [][NextTabs]_vars

\* ------------------------------------------------------------ vocabulary of the properties
UserPresent == TruthyStr(GetItem(World, "user_id"))
MonitorActive(tab) == effect[tab] # NoEffect

\* The step being taken is a run of `handler` in `tab` (lastRun' describes the step).
StepOf(handler, tab) == lastRun'.handler = handler /\ lastRun'.tab = tab

\* Idle time since the latest activity.
Idle == now - lastWriteAt

InLog(entry) == \E i \in DOMAIN lastRun.log : lastRun.log[i] = entry

\* The last handler was a periodic check that expired the session.
ExpiredInLastRun == lastRun.handler = "check" /\ InLog(<<"removeItem", "user_id">>)

\* What C1 asks of a state and of a step.
C1_IdleBound ==
    \A tab \in Tabs :
        (MonitorActive(tab) /\ UserPresent /\ ~foreign)
            => Idle <= TimeoutMs(config[tab]) + IntervalMs

C1_ExpiryStep ==
    \A tab \in Tabs :
        (StepOf("check", tab) /\ UserPresent /\ ~foreign /\ Idle > TimeoutMs(config[tab]))
            => ("user_id" \notin DOMAIN storage' /\ route'[tab] = "/login")

\* C1: while a monitor is active and user_id is present, idleness never exceeds the
\* threshold T by more than one check period (30 s), because the check that runs
\* once idle time exceeds T removes user_id and navigates to /login.
C1_IdleExpiry == [](C1_IdleBound) /\ [][C1_ExpiryStep]_vars

\* A check found the session idle for more than T = MaxTimeoutMinutes, within one
\* period of the crossing, and cleared it.
C1_Witness ==
    /\ ExpiredInLastRun
    /\ ~foreign
    /\ lastRun.read.timeoutMs = TimeoutMs(MaxTimeoutMinutes)
    /\ Idle > lastRun.read.timeoutMs
    /\ Idle <= lastRun.read.timeoutMs + IntervalMs
    /\ "user_id" \notin DOMAIN storage
    /\ route[lastRun.tab] = "/login"

\* What C2 asks of a state and of a step.
C2_EventRestarts ==
    (lastRun.handler = "event" /\ MonitorActive(lastRun.tab))
        => GetItem(World, "lastActivity") = NumberToString(now)

C2_ExpiryStep ==
    \A tab \in Tabs :
        (StepOf("check", tab) /\ UserPresent /\ ~foreign /\ "user_id" \notin DOMAIN storage')
            => Idle > TimeoutMs(config[tab])

\* C2: while activity (activation, then mousemove/keydown events) recurs less than
\* T minutes apart, no check removes user_id: an event restarts the idle window at
\* its own time, and a check removes user_id only when more than T minutes have
\* passed since the latest activity.
C2_NoEarlyExpiry == [](C2_EventRestarts) /\ [][C2_ExpiryStep]_vars

\* A check later than T after the start kept the session, because an event that
\* came after the activation (off the timer's phase) had refreshed the timestamp.
C2_Witness ==
    /\ lastRun.handler = "check"
    /\ lastRun.log = <<>>
    /\ UserPresent
    /\ ~foreign
    /\ MonitorActive(lastRun.tab)
    /\ now - StartTime > lastRun.read.timeoutMs
    /\ Idle > 0
    /\ Idle < lastRun.read.timeoutMs
    /\ Idle % IntervalMs # 0

\* What C3 asks of a state and of a step.
C3_NoOrphans ==
    \A tab \in Tabs : ~MonitorActive(tab) => (timers[tab] = {} /\ listeners[tab] = {})

C3_QuietStep ==
    \A tab \in Tabs :
        ~MonitorActive(tab)
            => /\ ~StepOf("check", tab)
               /\ StepOf("event", tab) => storage' = storage

\* C3: a deactivated monitor has no timer and no listener left (cleanup cancels
\* the interval and removes both listeners in one step), so it runs no further
\* check, and events that keep arriving write nothing.
C3_DeactivationCancels == [](C3_NoOrphans) /\ [][C3_QuietStep]_vars

\* The cleanup ran while the interval timer was already due, and nothing is left.
C3_Witness ==
    /\ lastRun.handler \in {"goto", "logout"}
    /\ InLog(<<"clearInterval", "due">>)
    /\ ~MonitorActive(lastRun.tab)
    /\ timers[lastRun.tab] = {}
    /\ listeners[lastRun.tab] = {}

\* What C4 asks of a state and of a step.
C4_Step ==
    \A tab \in Tabs :
        (StepOf("check", tab) /\ ParseInt(GetItem(World, "lastActivity")).nan)
            => (storage' = storage /\ route' = route /\ lastRun'.log = <<>>)

\* C4: a check that reads a missing lastActivity, or one parseInt cannot parse,
\* expires nothing: storage and route stay as they are and nothing is shown.
C4_MalformedFailsOpen == [][C4_Step]_vars

\* A check read "abc" with user_id present, long after the threshold, and kept
\* the session.
C4_Witness ==
    /\ lastRun.handler = "check"
    /\ lastRun.read.userId
    /\ lastRun.read.lastActivity.nan
    /\ GetItem(World, "lastActivity") = <<"a", "b", "c">>
    /\ UserPresent
    /\ Idle > lastRun.read.timeoutMs + IntervalMs

\* What C5 asks of a state and of a step.
C5_Step ==
    \A tab \in Tabs :
        (StepOf("check", tab) /\ ~UserPresent)
            => (storage' = storage /\ route' = route /\ lastRun'.log = <<>>)

\* C5: a check that runs while user_id is absent is a no-op: no storage key
\* changes, nothing is shown, the route stays.
C5_NoSessionNoOp == [][C5_Step]_vars

\* A check found no user_id and a timestamp older than the threshold, and did
\* nothing.
C5_Witness ==
    /\ lastRun.handler = "check"
    /\ ~lastRun.read.userId
    /\ TruthyNum(lastRun.read.lastActivity)
    /\ now - lastRun.read.lastActivity.val > lastRun.read.timeoutMs
    /\ lastRun.log = <<>>
    /\ GetItem(World, "lastActivity") # Null

\* What C6 asks of a state and of a step.
MonitorHandlers == {"goto", "render", "event", "check"}

C6_Step ==
    /\ lastRun'.handler \in MonitorHandlers => GetItem(World, "token") = GetItem(World, "token")'
    /\ ("token" \in DOMAIN storage /\ "token" \notin DOMAIN storage')
           => lastRun'.handler = "logout"
    /\ (lastRun'.handler = "check" /\ UserPresent /\ "user_id" \notin DOMAIN storage')
           => /\ DOMAIN storage' = (DOMAIN storage) \ {"user_id", "lastActivity"}
              /\ \A k \in DOMAIN storage' : storage'[k] = storage[k]

\* C6: an expiring check removes exactly user_id and lastActivity; no step of the
\* monitor (activation, re-render, event, check, cleanup) changes token, and only
\* the logout flow removes it.
C6_TokenUntouched == [][C6_Step]_vars

\* A check expired the session and token is all that is left in storage.
C6_Witness ==
    /\ ExpiredInLastRun
    /\ DOMAIN storage = {"token"}
    /\ storage["token"] = TokenValue

\* What C7 asks of a state and of a step.
Position(log, entry) == CHOOSE i \in DOMAIN log : log[i] = entry
Count(log, entry) == Cardinality({i \in DOMAIN log : log[i] = entry})

C7_Step ==
    LET log == lastRun'.log
        expiring == /\ lastRun'.handler = "check"
                    /\ UserPresent
                    /\ "user_id" \notin DOMAIN storage'
    IN  IF expiring
        THEN /\ Count(log, <<"alert">>) = 1
             /\ Count(log, <<"removeItem", "user_id">>) = 1
             /\ Count(log, <<"removeItem", "lastActivity">>) = 1
             /\ Count(log, <<"navigate", "/login">>) = 1
             /\ Position(log, <<"removeItem", "user_id">>) < Position(log, <<"alert">>)
             /\ Position(log, <<"removeItem", "lastActivity">>) < Position(log, <<"alert">>)
             /\ Position(log, <<"alert">>) < Position(log, <<"navigate", "/login">>)
        ELSE Count(log, <<"alert">>) = 0

\* C7: an expiring check shows exactly one notification, after both removals and
\* before the redirect to /login; no other step shows one.
C7_OneNotification == [][C7_Step]_vars

\* An expiry happened: removals, then the alert, then the redirect.
C7_Witness ==
    /\ ExpiredInLastRun
    /\ SubSeq(lastRun.log, 1, 4) =
           << <<"removeItem", "user_id">>, <<"removeItem", "lastActivity">>,
              <<"alert">>, <<"navigate", "/login">> >>
    /\ route[lastRun.tab] = "/login"

\* C8: a monitor never has more than one live timer or more than one listener per
\* event type, and the threshold every live timer (hence every check) compares
\* against is the one of the current timeoutMinutes.
C8_OneTimerCurrentThreshold ==
    \A tab \in Tabs :
        /\ Cardinality(timers[tab]) <= 1
        /\ \A type \in EventTypes : Cardinality({l \in listeners[tab] : l.type = type}) <= 1
        /\ \A l \in listeners[tab] : l.type \in EventTypes
        /\ \A timer \in timers[tab] : timer.timeoutMs = TimeoutMs(config[tab])
        /\ (lastRun.handler = "check" /\ lastRun.tab = tab /\ config[tab] # 0)
               => lastRun.read.timeoutMs = TimeoutMs(config[tab])

\* A change of timeoutMinutes, later than the start, cancelled the old timer and
\* left one timer with the new threshold and one pair of listeners.
C8_Witness ==
    /\ lastRun.handler = "render"
    /\ InLog(<<"clearInterval", "pending">>)
    /\ InLog(<<"setInterval">>)
    /\ now > StartTime
    /\ Cardinality(timers[lastRun.tab]) = 1
    /\ Cardinality(listeners[lastRun.tab]) = 2
    /\ config[lastRun.tab] = MaxTimeoutMinutes
    /\ \A timer \in timers[lastRun.tab] : timer.timeoutMs = TimeoutMs(MaxTimeoutMinutes)

\* What C9 asks of a state and of a step.
C9_Step ==
    \A tab \in Tabs :
        (/\ lastRun'.handler \in {"goto", "render"}
         /\ lastRun'.tab = tab
         /\ effect'[tab] # NoEffect
         /\ effect'[tab] # effect[tab])
            => /\ "lastActivity" \in DOMAIN storage'
               /\ storage'["lastActivity"] = NumberToString(now')
               /\ \A timer \in timers'[tab] : timer.due > now'

\* C9: every activation (mount, or re-activation when timeoutMinutes changes)
\* leaves lastActivity equal to the current time and its timer due only later,
\* with or without user_id.
C9_ActivationResetsBaseline == [][C9_Step]_vars

\* A re-activation without user_id, later than the start, left lastActivity at
\* the current time.
C9_Witness ==
    /\ lastRun.handler = "render"
    /\ InLog(<<"setInterval">>)
    /\ ~UserPresent
    /\ now > StartTime
    /\ GetItem(World, "lastActivity") = NumberToString(now)

\* What C10 asks of a state and of a step.
C10_Step ==
    \A tab \in Tabs :
        LET last == ParseInt(GetItem(World, "lastActivity"))
        IN  (StepOf("check", tab) /\ UserPresent /\ TruthyNum(last))
                => IF now - last.val <= lastRun'.read.timeoutMs
                   THEN storage' = storage /\ route' = route /\ lastRun'.log = <<>>
                   ELSE "user_id" \notin DOMAIN storage'

\* C10: with user_id present and a usable lastActivity, a check whose
\* elapsed = now - lastActivity is at most timeoutMs changes nothing; one whose
\* elapsed is greater removes user_id.
C10_StrictComparison == [][C10_Step]_vars

\* A check ran with elapsed exactly timeoutMs and the session is still there.
C10_Witness ==
    /\ lastRun.handler = "check"
    /\ lastRun.read.userId
    /\ TruthyNum(lastRun.read.lastActivity)
    /\ now - lastRun.read.lastActivity.val = lastRun.read.timeoutMs
    /\ UserPresent
    /\ lastRun.log = <<>>

\* What C11 asks of a step of the application.
C11_Step ==
    LET before == ParseInt(GetItem(World, "lastActivity"))
        after == ParseInt(GetItem(World, "lastActivity")')
    IN  (/\ lastRun'.handler # "foreign"
         /\ ~foreign
         /\ UserPresent
         /\ UserPresent'
         /\ ~before.nan
         /\ ~after.nan)
            => after.val >= before.val

\* C11: while user_id is present, lastActivity as the application writes it
\* (activation, mousemove/keydown handler, login) never decreases.
C11_TimestampMonotone == [][C11_Step]_vars

\* An event under a live monitor, with user_id present and later than the start,
\* moved lastActivity forward to the current time.
C11_Witness ==
    /\ lastRun.handler = "event"
    /\ InLog(<<"setItem", "lastActivity">>)
    /\ UserPresent
    /\ ~foreign
    /\ now > StartTime + IntervalMs
    /\ ParseInt(GetItem(World, "lastActivity")) = Num(now)

\* What C12 asks of a step: an event, or a re-render of the hook's caller.
QuietEntries == {<<"removeItem", k>> : k \in {"user_id", "token", "lastActivity"}}
                    \cup {<<"alert">>} \cup {<<"navigate", p>> : p \in Routes}

C12_Step ==
    /\ \A tab \in Tabs :
           StepOf("event", tab)
               => /\ GetItem(World, "user_id")' = GetItem(World, "user_id")
                  /\ GetItem(World, "token")' = GetItem(World, "token")
                  /\ route' = route
                  /\ \A i \in DOMAIN lastRun'.log :
                         lastRun'.log[i] = <<"setItem", "lastActivity">>
    /\ lastRun'.handler \in {"event", "render"}
           => /\ DOMAIN storage \subseteq DOMAIN storage'
              /\ route' = route
              /\ \A i \in DOMAIN lastRun'.log : lastRun'.log[i] \notin QuietEntries

\* C12: a mousemove/keydown handler changes lastActivity and nothing else, in
\* every state; within the monitor only the periodic check removes keys, shows
\* the notification or redirects.
C12_HandlersOnlyWriteTimestamp == [][C12_Step]_vars

\* An event with no session at all wrote lastActivity and nothing else.
C12_Witness ==
    /\ lastRun.handler = "event"
    /\ lastRun.log = << <<"setItem", "lastActivity">> >>
    /\ DOMAIN storage = {"lastActivity"}
    /\ storage["lastActivity"] = NumberToString(now)
    /\ route[lastRun.tab] = MonitorRoute

\* What C13 asks of a state and of a step, with two monitors on one storage.
C13_AfterExpiry ==
    ExpiredInLastRun
        => /\ "user_id" \notin DOMAIN storage
           /\ "lastActivity" \notin DOMAIN storage
           /\ Count(lastRun.log, <<"alert">>) = 1
           /\ route[lastRun.tab] = "/login"

C13_Step ==
    /\ \A tab \in AllTabs :
           (StepOf("check", tab) /\ ~UserPresent)
               => (storage' = storage /\ route' = route /\ lastRun'.log = <<>>)
    /\ (ExpiredInLastRun /\ lastRun'.handler = "check") => lastRun'.log = <<>>

\* C13: with two monitors on one storage the expiry is performed once: the check
\* that fires first removes user_id and lastActivity, alerts and redirects its
\* tab, and a check of the other monitor that finds user_id absent does nothing.
C13_SingleExpiry == [](C13_AfterExpiry) /\ [][C13_Step]_vars

\* Tab 1 expired the session (token alone is left, tab 1 is at /login); the check
\* of tab 2, itself idle past its threshold, then ran and did nothing.
C13_Witness ==
    /\ lastRun.handler = "check"
    /\ lastRun.tab = 2
    /\ lastRun.log = <<>>
    /\ ~lastRun.read.userId
    /\ DOMAIN storage = {"token"}
    /\ route[1] = "/login"
    /\ MonitorActive(2)
    /\ route[2] = MonitorRoute
    /\ Idle > lastRun.read.timeoutMs

\* What C14 asks of a state and of a step.
C14_OffRouteInactive ==
    \A tab \in Tabs :
        route[tab] # MonitorRoute
            => /\ ~MonitorActive(tab)
               /\ config[tab] = 0
               /\ timers[tab] = {}
               /\ listeners[tab] = {}

C14_Step ==
    \A tab \in Tabs :
        (/\ lastRun'.tab = tab
         /\ route[tab] # MonitorRoute
         /\ "user_id" \in DOMAIN storage
         /\ "user_id" \notin DOMAIN storage')
            => lastRun'.handler = "logout"

\* C14: the monitor lives only while the page at /add-product is mounted: on any
\* other route the tab has no timer and no listener, and the only step of the tab
\* that removes user_id there is the logout, however long the user is idle.
C14_MonitorOnlyOnAddProduct == [](C14_OffRouteInactive) /\ [][C14_Step]_vars

\* On /dashboard the session is still there after more idle time than the largest
\* threshold plus one check period.
C14_Witness ==
    /\ route[1] = "/dashboard"
    /\ UserPresent
    /\ ~foreign
    /\ GetItem(World, "lastActivity") = NumberToString(lastWriteAt)
    /\ Idle > TimeoutMs(MaxTimeoutMinutes) + IntervalMs

\* The Dashboard is mounted and still shows "Loading your dashboard...".
DashboardLoading(tab) == route[tab] = "/dashboard" /\ page[tab].loading

\* C15: after the Dashboard mounts, its loading flag becomes false in every case.
\* Only the settling of its request clears the flag, so the claim asks that a
\* Dashboard that is still loading has its request in flight.
C15_DashboardLoadingEnds ==
    \A tab \in Tabs : DashboardLoading(tab) => page[tab].pending

====
